---- MODULE Spec2Model ----
(***************************************************************************)
(* Model of the device-information CLI tool (src/main.py).                 *)
(*                                                                         *)
(* Text is modelled as a sequence of tokens (strings); the token "\n" is   *)
(* the newline character, the token " " is white space, "\"" the double    *)
(* quote and "\\" the backslash.  A dict is a sequence of [k, val] pairs   *)
(* in insertion order; a value is [t |-> "str" | "int", v |-> tokens].     *)
(* An optional value (None or a string) is <<>> or <<tokens>>.             *)
(***************************************************************************)
EXTENDS Integers, Sequences, FiniteSets, TLC

VARIABLES
    cli,          \* the command line: [f, o, positional, x, d, c]
    env,          \* the host: [os, node, resolve, file0]
    args,         \* the argparse.Namespace main() works on
    pc,           \* position of the process
    device_info,  \* main()'s device_info
    live_info,    \* continuous_monitoring's live_info
    first_run,    \* continuous_monitoring's first_run flag
    clock,        \* number of collections so far (drives the timestamps)
    file,         \* content of the output file
    stdout,       \* what was printed, in order: [tag, body]
    stderr,       \* messages sys.exit() wrote
    opens,        \* every open() of the output file: [path, mode, format]
    calls,        \* every call of output_to_file: [continuous, debug, format, output, mode, keys]
    exit_status,  \* -1 while running, then the process's exit status
    caught,       \* where an exception was caught: [exc, by, at]
    sleeps,       \* number of time.sleep(5) calls started
    records       \* the records handed to export_to_jsonl (module-level use)

vars == <<cli, env, args, pc, device_info, live_info, first_run, clock, file, stdout,
          stderr, opens, calls, exit_status, caught, sleeps, records>>

\* ---------------------------------------------------------------- bounds
MaxIter == 3
MaxRecords == 3

\* ------------------------------------------------------------- constants
VERSION == "1.2.1"
DEBUG_OUTPUT == <<"debug_output.json">>
FORMAT_CHOICES == {"jsonl", "json", "xml"}
FORMAT_DEFAULT == "json"

\* ------------------------------------------------------- python helpers
None == <<>>
Some(s) == <<s>>

\* Python truthiness of an Optional[str]: None and "" are falsy.
Truthy(o) == o # None /\ o[1] # <<>>

\* str.lower on the format tokens a user can type.
Lower(s) ==
    CASE s = "JSON" -> "json"
      [] s = "JSONL" -> "jsonl"
      [] s = "Xml" -> "xml"
      [] OTHER -> s

RECURSIVE LStrip(_)
LStrip(s) == IF s # <<>> /\ Head(s) = " " THEN LStrip(Tail(s)) ELSE s

RECURSIVE RStrip(_)
RStrip(s) ==
    IF s # <<>> /\ s[Len(s)] = " " THEN RStrip(SubSeq(s, 1, Len(s) - 1)) ELSE s

\* str.strip()
Strip(s) == RStrip(LStrip(s))

StrVal(toks) == [t |-> "str", v |-> toks]
IntVal(tok) == [t |-> "int", v |-> <<tok>>]
Pair(k, val) == [k |-> k, val |-> val]

Keys(d) == [i \in 1..Len(d) |-> d[i].k]
KeySet(d) == {d[i].k : i \in 1..Len(d)}

\* d[key]
Get(d, key) == d[CHOOSE i \in 1..Len(d) : d[i].k = key].val

\* dict.update with one pair: replace in place or append.
Update1(d, p) ==
    IF p.k \in KeySet(d)
    THEN [i \in 1..Len(d) |-> IF d[i].k = p.k THEN p ELSE d[i]]
    ELSE Append(d, p)

RECURSIVE Update(_, _)
Update(d, e) == IF e = <<>> THEN d ELSE Update(Update1(d, Head(e)), Tail(e))

\* ------------------------------------------------------- fact collector
\* socket.gethostbyname(socket.gethostname()): an address, or it raises.
ResolveResults == {"raise", "127.0.1.1", "10.0.0.2"}

\* ip_address.startswith("127.")
StartsWith127(a) == a \in {"127.0.1.1", "127.0.0.1"}

ResolveIp(r) ==
    IF r = "raise" THEN "127.0.0.1"
    ELSE IF StartsWith127(r) THEN "127.0.0.1" ELSE r

get_device_info(e, now) ==
    << Pair("timestamp_local", StrVal(<<"local", ToString(now)>>)),
       Pair("timestamp_utc", StrVal(<<"utc", ToString(now)>>)),
       Pair("device_name", StrVal(e.node)),
       Pair("os_version", StrVal(<<e.os>>)),
       Pair("FQDN", StrVal(<<"host.example">>)),
       Pair("ip_address", StrVal(<<ResolveIp(e.resolve)>>)) >>

\* shutil.disk_usage(root): the results the host can give.
DiskUsages == {[total |-> "100", used |-> "40", free |-> "60"],
               [total |-> "100", used |-> "41", free |-> "59"]}

get_disk_usage(os, usage) ==
    << Pair("total_disk_space", IntVal(usage.total)),
       Pair("used_disk_space", IntVal(usage.used)),
       Pair("free_disk_space", IntVal(usage.free)) >>

\* The extended record without its python_version field.
get_device_info_extended_no_runtime(e, now, usage) ==
    LET base == get_device_info(e, now)
        withDisk == Update(base, get_disk_usage(Get(base, "os_version").v[1], usage))
    IN  Update(withDisk,
               << Pair("machine", StrVal(<<"x86_64">>)),
                  Pair("processor", StrVal(<<"cpu">>)) >>)

get_device_info_extended(e, now, usage) ==
    LET base == get_device_info(e, now)
        withDisk == Update(base, get_disk_usage(Get(base, "os_version").v[1], usage))
    IN  Update(withDisk,
               << Pair("machine", StrVal(<<"x86_64">>)),
                  Pair("processor", StrVal(<<"cpu">>)),
                  Pair("python_version", StrVal(<<"3.11">>)) >>)

\* The dict continuous_monitoring builds on every run after the first.
DeltaOf(info) ==
    << Pair("timestamp_local", Get(info, "timestamp_local")),
       Pair("timestamp_utc", Get(info, "timestamp_utc")),
       Pair("used_disk_space", Get(info, "used_disk_space")),
       Pair("free_disk_space", Get(info, "free_disk_space")),
       Pair("total_disk_space", Get(info, "total_disk_space")) >>

\* --------------------------------------------------------------- encoder
\* The concatenation of the texts ss[lo..hi], sep between neighbours.
RECURSIVE JoinRange(_, _, _, _)
JoinRange(ss, sep, lo, hi) ==
    IF lo > hi THEN <<>>
    ELSE IF lo = hi THEN ss[lo]
    ELSE LET mid == (lo + hi) \div 2
         IN  JoinRange(ss, sep, lo, mid) \o sep \o JoinRange(ss, sep, mid + 1, hi)

\* sep.join(ss)
Join(ss, sep) == JoinRange(ss, sep, 1, Len(ss))

Flatten(ss) == Join(ss, <<>>)

\* No escaping at all.
JsonEscapeCharRaw(c) == <<c>>

\* json's escaping of one character of a string.
JsonEscapeChar(c) ==
    CASE c = "\n" -> <<"\\", "n">>
      [] c = "\"" -> <<"\\", "\"">>
      [] c = "\\" -> <<"\\", "\\">>
      [] OTHER -> <<c>>

JsonString(toks) ==
    <<"\"">> \o Flatten([i \in 1..Len(toks) |-> JsonEscapeChar(toks[i])]) \o <<"\"">>

JsonValue(val) == IF val.t = "str" THEN JsonString(val.v) ELSE val.v

JsonItem(p) == JsonString(<<p.k>>) \o <<": ">> \o JsonValue(p.val)

\* json.dumps(d): one compact line.
json_dumps(d) ==
    <<"{">> \o Join([i \in 1..Len(d) |-> JsonItem(d[i])], <<", ">>) \o <<"}">>

\* json.dumps(d, indent=4) / json.dump(d, f, indent=4)
json_dumps_indent(d) ==
    IF d = <<>> THEN <<"{}">>
    ELSE <<"{", "\n">>
         \o Join([i \in 1..Len(d) |-> <<"    ">> \o JsonItem(d[i])], <<",", "\n">>)
         \o <<"\n", "}">>

\* The text export_to_xml writes: f'    <{key}>{value}</{key}>\n' per field.
xml_text(d) ==
    <<"<device_info>", "\n">>
    \o Flatten([i \in 1..Len(d) |->
            <<"    ", "<", d[i].k, ">">> \o d[i].val.v \o <<"</", d[i].k, ">", "\n">>])
    \o <<"</device_info>", "\n">>

\* ----------------------------------------------------------- sink writer
\* What can happen to one open/write/close of the output file, or to one
\* print: it succeeds, open() fails, the write fails after open(), or the
\* interrupt signal arrives before or after the data went out.
FileOutcomes == {"ok", "open_fail", "write_fail",
                 "interrupt_before_write", "interrupt_after_write"}
ConsoleOutcomes == {"ok", "interrupt_before_write", "interrupt_after_write"}

\* print(...)
Say(w, tag, body) == [w EXCEPT !.stdout = Append(@, [tag |-> tag, body |-> body])]

Caught(w, exc, by) == [w EXCEPT !.caught = Append(@, [exc |-> exc, by |-> by, at |-> pc])]

\* open(path, mode): 'w' creates or truncates, 'a' keeps the content.
Opened(content, mode) == IF mode = "w" THEN <<>> ELSE content

\* with open(output_file, mode) as f: f.write(text)
WithOpenWrite(w, path, mode, fmt, text, oc) ==
    LET w1 == [w EXCEPT !.opens = Append(@, [path |-> path, mode |-> mode, format |-> fmt])]
        trunc == [w1 EXCEPT !.file = Opened(w.file, mode)]
        full == [w1 EXCEPT !.file = Opened(w.file, mode) \o text]
    IN  CASE oc = "open_fail" -> [w |-> w1, exc |-> "OSError"]
          [] oc = "write_fail" -> [w |-> trunc, exc |-> "OSError"]
          [] oc = "interrupt_before_write" -> [w |-> trunc, exc |-> "KeyboardInterrupt"]
          [] oc = "interrupt_after_write" -> [w |-> full, exc |-> "KeyboardInterrupt"]
          [] OTHER -> [w |-> full, exc |-> "none"]

\* print(text) on the console, where the interrupt may arrive.
ConsoleWrite(w, tag, text, oc) ==
    CASE oc = "interrupt_before_write" -> [w |-> w, exc |-> "KeyboardInterrupt"]
      [] oc = "interrupt_after_write" -> [w |-> Say(w, tag, text), exc |-> "KeyboardInterrupt"]
      [] OTHER -> [w |-> Say(w, tag, text), exc |-> "none"]

\* An export function with no except clause.
JsonExportCatchesNothing == {}
JsonlExportCatchesNothing == {}

\* except OSError (export_to_json)
JsonExportCatches == {"OSError"}

\* except Exception (export_to_jsonl): every exception, not the interrupt
JsonlExportCatches == {"OSError"}

\* except Exception (export_to_xml)
XmlExportCatches == {"OSError"}

export_to_json(data, output_file, mode, oc, w) ==
    LET r == WithOpenWrite(w, output_file, mode, "json", json_dumps_indent(data), oc)
    IN  IF r.exc = "none"
        THEN [w |-> Say(r.w, "exported", output_file), exc |-> "none"]
        ELSE IF r.exc \in JsonExportCatches
        THEN [w |-> Say(Caught(r.w, r.exc, "export_to_json"), "error_writing", output_file),
              exc |-> "none"]
        ELSE r

export_to_jsonl(data, output, mode, oc, w) ==
    IF Truthy(output)
    THEN LET r == WithOpenWrite(w, output[1], mode, "jsonl", json_dumps(data) \o <<"\n">>, oc)
         IN  IF r.exc = "none"
             THEN [w |-> Say(r.w, "appended", output[1]), exc |-> "none"]
             ELSE IF r.exc \in JsonlExportCatches
             THEN [w |-> Say(Caught(r.w, r.exc, "export_to_jsonl"), "failed_export", <<>>),
                   exc |-> "none"]
             ELSE r
    ELSE ConsoleWrite(w, "jsonl_line", json_dumps(data), oc)

export_to_xml(data, output_file, mode, oc, w) ==
    LET r == WithOpenWrite(w, output_file, mode, "xml", xml_text(data), oc)
    IN  IF r.exc = "none"
        THEN [w |-> Say(r.w, "exported", output_file), exc |-> "none"]
        ELSE IF r.exc \in XmlExportCatches
        THEN [w |-> Say(Caught(r.w, r.exc, "export_to_xml"), "failed_export", output_file),
              exc |-> "none"]
        ELSE r

\* output_to_file printing the XML text when no path is given.
output_to_file_xml_console(a, info, mode, oc, w) ==
    IF a.format = "json"
    THEN IF Truthy(a.output)
         THEN export_to_json(info, a.output[1], mode, oc, w)
         ELSE ConsoleWrite(w, "pretty_json", json_dumps_indent(info), oc)
    ELSE IF a.format = "xml"
    THEN IF Truthy(a.output)
         THEN export_to_xml(info, a.output[1], mode, oc, w)
         ELSE ConsoleWrite(w, "xml_record", xml_text(info), oc)
    ELSE IF a.format = "jsonl"
    THEN export_to_jsonl(info, a.output, mode, oc, w)
    ELSE [w |-> Say(w, "unsupported_format", <<a.format>>), exc |-> "none"]

output_to_file(a, info, mode, oc, w) ==
    IF a.format = "json"
    THEN IF Truthy(a.output)
         THEN export_to_json(info, a.output[1], mode, oc, w)
         ELSE ConsoleWrite(w, "pretty_json", json_dumps_indent(info), oc)
    ELSE IF a.format = "xml"
    THEN IF Truthy(a.output)
         THEN export_to_xml(info, a.output[1], mode, oc, w)
         ELSE ConsoleWrite(w, "xml_unsupported", <<>>, oc)
    ELSE IF a.format = "jsonl"
    THEN export_to_jsonl(info, a.output, mode, oc, w)
    ELSE [w |-> Say(w, "unsupported_format", <<a.format>>), exc |-> "none"]

\* The outcomes one call of output_to_file can meet.
OutputOutcomes(a) == IF Truthy(a.output) THEN FileOutcomes ELSE ConsoleOutcomes

\* ------------------------------------------------------------- get_args
\* What the user can type.
FormatInputs == {None, Some("json"), Some("JSONL"), Some("xml"), Some("Xml")}
OutputInputs == {None, Some(<<>>), Some(<<"mon.jsonl">>)}
PositionalInputs == {None, Some(<<" ">>), Some(<<" ", "pos.out", " ">>)}

\* argparse accepts the command line: the lowered format is one of the
\* choices, and -d and -c are mutually exclusive.
ValidCli(c) ==
    /\ c.f # None => Lower(c.f[1]) \in FORMAT_CHOICES
    /\ ~(c.d /\ c.c)

\* get_args without "if args.continuous: args.format = 'jsonl'".
get_args_keeps_format(c) ==
    LET format0 == IF c.f = None THEN FORMAT_DEFAULT ELSE Lower(c.f[1])
        output1 == IF Truthy(c.positional) /\ ~Truthy(c.o)
                   THEN Some(Strip(c.positional[1]))
                   ELSE c.o
    IN  [format |-> Lower(format0), output |-> output1, extra |-> c.x,
         debug |-> c.d, continuous |-> c.c, positional_output |-> c.positional]

get_args(c) ==
    LET format0 == IF c.f = None THEN FORMAT_DEFAULT ELSE Lower(c.f[1])
        output1 == IF Truthy(c.positional) /\ ~Truthy(c.o)
                   THEN Some(Strip(c.positional[1]))
                   ELSE c.o
        format1 == IF c.c THEN "jsonl" ELSE format0
    IN  [format |-> Lower(format1), output |-> output1, extra |-> c.x,
         debug |-> c.d, continuous |-> c.c, positional_output |-> c.positional]

\* The debug override without the assignment to args.output.
DebugOverrideFormatOnly(a) ==
    IF a.debug THEN [a EXCEPT !.format = "json"] ELSE a

\* main(): if args.debug: args.output = "debug_output.json"; args.format = "json"
DebugOverride(a) ==
    IF a.debug THEN [a EXCEPT !.output = Some(DEBUG_OUTPUT), !.format = "json"] ELSE a

\* debug_mode(args): six prints.
debug_mode(w, a) ==
    LET w1 == Say(w, "debug_enabled", <<>>)
        w2 == Say(w1, "debug_arguments", <<>>)
        w3 == Say(w2, "debug_format", <<a.format>>)
        w4 == Say(w3, "debug_output", IF a.output = None THEN <<"None">> ELSE a.output[1])
        w5 == Say(w4, "debug_continuous", <<>>)
    IN  Say(w5, "debug_version", <<VERSION>>)

\* ------------------------------------------------------------- process
W == [file |-> file, stdout |-> stdout, opens |-> opens, caught |-> caught]

SetW(w) ==
    /\ file' = w.file
    /\ stdout' = w.stdout
    /\ opens' = w.opens
    /\ caught' = w.caught

\* An exit that reports success.
TopLevelStatusZero(exc) == 0

\* sys.exit(f"..."): a string argument goes to stderr and the status is 1.
TopLevelStatus(exc) == 1

TopLevelMessage(exc) ==
    IF exc = "KeyboardInterrupt" THEN "Program interrupted by user" ELSE "An error occurred of type"

\* The process ends: main() returned (exc = "none") or raised to __main__.
Finish(w, exc) ==
    /\ pc' = "done"
    /\ IF exc = "none"
       THEN /\ exit_status' = 0
            /\ stderr' = stderr
            /\ SetW(w)
       ELSE /\ exit_status' = TopLevelStatus(exc)
            /\ stderr' = Append(stderr, TopLevelMessage(exc))
            /\ SetW(Caught(w, exc, "top"))

\* The loop without its "except KeyboardInterrupt".
LoopCatchesOSErrorOnly == {"OSError"}

\* The except clauses of the while loop of continuous_monitoring.
LoopCatches == {"KeyboardInterrupt", "OSError"}

LoopMessage(exc) ==
    IF exc = "KeyboardInterrupt" THEN "stopped_by_user" ELSE "disk_access_error"

\* An exception raised inside the try of the loop: caught, reported, break.
LoopExit(w, exc) ==
    IF exc \in LoopCatches
    THEN Finish(Say(Caught(w, exc, "loop"), LoopMessage(exc), <<>>), "none")
    ELSE Finish(w, exc)

CallRecord(a, info, mode) ==
    [continuous |-> a.continuous, debug |-> a.debug, format |-> a.format,
     output |-> a.output, mode |-> mode, keys |-> Keys(info)]

\* The results of one collection: a disk usage, a failed disk query, or
\* the interrupt signal.
NoUsage == [total |-> "", used |-> "", free |-> ""]
ExtendedOutcomes ==
    [kind : {"ok"}, usage : DiskUsages]
        \cup [kind : {"OSError", "KeyboardInterrupt"}, usage : {NoUsage}]
BasicOutcomes == [kind : {"ok", "KeyboardInterrupt"}, usage : {NoUsage}]

NoArgs == [format |-> "", output |-> None, extra |-> FALSE, debug |-> FALSE,
           continuous |-> FALSE, positional_output |-> None]

InitialFiles == {<<>>, <<"old", "\n">>}

Init ==
    /\ cli \in {c \in [f : FormatInputs, o : OutputInputs, positional : PositionalInputs,
                       x : BOOLEAN, d : BOOLEAN, c : BOOLEAN] : ValidCli(c)}
    /\ env \in [os : {"Linux"}, node : {<<"host">>}, resolve : ResolveResults,
                file0 : InitialFiles]
    /\ args = NoArgs
    /\ pc = "main"
    /\ device_info = <<>>
    /\ live_info = <<>>
    /\ first_run = TRUE
    /\ clock = 0
    /\ file = env.file0
    /\ stdout = <<>>
    /\ stderr = <<>>
    /\ opens = <<>>
    /\ calls = <<>>
    /\ exit_status = -1
    /\ caught = <<>>
    /\ sleeps = 0
    /\ records = <<>>

\* main(): args = get_args(), then the debug override.
Configure ==
    /\ pc = "main"
    /\ LET a == get_args(cli)
       IN  /\ args' = DebugOverride(a)
           /\ stdout' = IF a.debug THEN debug_mode(W, a).stdout ELSE stdout
    /\ pc' = "collect"
    /\ UNCHANGED <<cli, env, device_info, live_info, first_run, clock, file, stderr,
                   opens, calls, exit_status, caught, sleeps, records>>

\* main(): device_info = get_device_info_extended() or get_device_info()
MainCollect ==
    /\ pc = "collect"
    /\ clock' = clock + 1
    /\ \E oc \in IF args.extra THEN ExtendedOutcomes ELSE BasicOutcomes :
        IF oc.kind # "ok"
        THEN /\ Finish(W, oc.kind)
             /\ UNCHANGED device_info
        ELSE /\ device_info' = IF args.extra
                               THEN get_device_info_extended(env, clock', oc.usage)
                               ELSE get_device_info(env, clock')
             /\ pc' = IF args.continuous THEN "cm_collect" ELSE "output"
             /\ UNCHANGED <<file, stdout, stderr, opens, exit_status, caught>>
    /\ UNCHANGED <<cli, env, args, live_info, first_run, calls, sleeps, records>>

\* main(): output_to_file(args, device_info)
MainOutput ==
    /\ pc = "output"
    /\ calls' = Append(calls, CallRecord(args, device_info, "w"))
    /\ \E oc \in OutputOutcomes(args) :
        LET r == output_to_file(args, device_info, "w", oc, W)
        IN  Finish(r.w, r.exc)
    /\ UNCHANGED <<cli, env, args, device_info, live_info, first_run, clock, sleeps, records>>

\* Every run writing with mode='w'.
WriteModeAlwaysTruncate(first) == "w"

\* continuous_monitoring: mode='w' on the first run, mode='a' afterwards
WriteMode(first) == IF first THEN "w" ELSE "a"

\* continuous_monitoring: the record a run writes
RunRecord(first, info) == IF first THEN info ELSE DeltaOf(info)

\* continuous_monitoring: live_info = get_device_info_extended()
CmCollect ==
    /\ pc = "cm_collect"
    /\ clock' = clock + 1
    /\ \E oc \in ExtendedOutcomes :
        IF oc.kind # "ok"
        THEN /\ LoopExit(W, oc.kind)
             /\ UNCHANGED live_info
        ELSE /\ live_info' = get_device_info_extended(env, clock', oc.usage)
             /\ pc' = "cm_write"
             /\ UNCHANGED <<file, stdout, stderr, opens, exit_status, caught>>
    /\ UNCHANGED <<cli, env, args, device_info, first_run, calls, sleeps, records>>

\* continuous_monitoring: output_to_file(args, live_info, mode), then
\* first_run = False and print("Monitoring...")
CmWrite ==
    /\ pc = "cm_write"
    /\ LET mode == WriteMode(first_run)
           data == RunRecord(first_run, live_info)
       IN  /\ calls' = Append(calls, CallRecord(args, data, mode))
           /\ \E oc \in OutputOutcomes(args) :
                LET r == output_to_file(args, data, mode, oc, W)
                IN  IF r.exc = "none"
                    THEN /\ first_run' = FALSE
                         /\ SetW(Say(r.w, "monitoring", <<>>))
                         /\ pc' = "cm_sleep"
                         /\ UNCHANGED <<stderr, exit_status>>
                    ELSE /\ LoopExit(r.w, r.exc)
                         /\ UNCHANGED first_run
    /\ UNCHANGED <<cli, env, args, device_info, live_info, clock, sleeps, records>>

\* continuous_monitoring: time.sleep(5), which the interrupt signal cuts
\* short; the loop is followed for at most MaxIter runs.
CmSleep ==
    /\ pc = "cm_sleep"
    /\ sleeps' = sleeps + 1
    /\ \E oc \in {"ok", "KeyboardInterrupt"} :
        IF oc = "KeyboardInterrupt"
        THEN LoopExit(W, oc)
        ELSE /\ sleeps' < MaxIter
             /\ pc' = "cm_collect"
             /\ UNCHANGED <<file, stdout, stderr, opens, exit_status, caught>>
    /\ UNCHANGED <<cli, env, args, device_info, live_info, first_run, clock, calls, records>>

Next ==
    \/ Configure
    \/ MainCollect
    \/ MainOutput
    \/ CmCollect
    \/ CmWrite
    \/ CmSleep

Spec == Init /\ [][Next]_vars

\* ------------------------------------------------- reading a file back
\* The number of newline characters of a text.
NewlineCount(text) == Cardinality({i \in 1..Len(text) : text[i] = "\n"})

\* The position of the k-th newline of a text (0 for k = 0).
RECURSIVE NewlineAt(_, _)
NewlineAt(text, k) ==
    IF k = 0 THEN 0
    ELSE LET from == NewlineAt(text, k - 1)
         IN  CHOOSE i \in (from + 1)..Len(text) :
                /\ text[i] = "\n"
                /\ \A j \in (from + 1)..(i - 1) : text[j] # "\n"

\* The k-th line of a text, without its newline.
LineAt(text, k) == SubSeq(text, NewlineAt(text, k - 1) + 1, NewlineAt(text, k) - 1)

ParseFail == [ok |-> FALSE, val |-> <<>>, next |-> 0]

JsonUnescapeChar(c) == IF c = "n" THEN "\n" ELSE c

\* A JSON parser's reading of a string body from position j on: up to the
\* closing quote, a backslash taking the next character with it.
RECURSIVE ScanString(_, _, _)
ScanString(s, j, acc) ==
    IF j > Len(s) THEN ParseFail
    ELSE IF s[j] = "\"" THEN [ok |-> TRUE, val |-> acc, next |-> j + 1]
    ELSE IF s[j] = "\\"
    THEN IF j + 1 > Len(s) THEN ParseFail
         ELSE ScanString(s, j + 2, Append(acc, JsonUnescapeChar(s[j + 1])))
    ELSE IF s[j] = "\n" THEN ParseFail
    ELSE ScanString(s, j + 1, Append(acc, s[j]))

ParseString(s, i) ==
    IF i > Len(s) \/ s[i] # "\"" THEN ParseFail ELSE ScanString(s, i + 1, <<>>)

JsonPunctuation == {"{", "}", "{}", ", ", ": ", ",", "\"", "\\", "\n", "    "}

ParseValue(s, i) ==
    IF i > Len(s) THEN ParseFail
    ELSE IF s[i] = "\"" 
    THEN LET r == ParseString(s, i)
         IN  IF r.ok THEN [ok |-> TRUE, val |-> <<StrVal(r.val)>>, next |-> r.next] ELSE ParseFail
    ELSE IF s[i] \in JsonPunctuation THEN ParseFail
    ELSE [ok |-> TRUE, val |-> <<IntVal(s[i])>>, next |-> i + 1]

\* The members of an object from position i on, up to the closing brace,
\* which must end the text.
RECURSIVE ParseMembers(_, _, _)
ParseMembers(s, i, acc) ==
    LET key == ParseString(s, i)
    IN  IF ~key.ok \/ Len(key.val) # 1 \/ key.next > Len(s) \/ s[key.next] # ": "
        THEN ParseFail
        ELSE LET v == ParseValue(s, key.next + 1)
             IN  IF ~v.ok \/ v.next > Len(s) THEN ParseFail
                 ELSE LET d == Append(acc, Pair(key.val[1], v.val[1]))
                      IN  IF s[v.next] = "}"
                          THEN (IF v.next = Len(s)
                                THEN [ok |-> TRUE, val |-> d, next |-> v.next + 1]
                                ELSE ParseFail)
                          ELSE IF s[v.next] = ", " THEN ParseMembers(s, v.next + 1, d)
                          ELSE ParseFail

\* json.loads of one line holding one compact object.
ParseJsonObject(s) ==
    IF Len(s) < 2 \/ s[1] # "{" THEN ParseFail
    ELSE IF s = <<"{", "}">> THEN [ok |-> TRUE, val |-> <<>>, next |-> 3]
    ELSE ParseMembers(s, 2, <<>>)

\* ------------------------------------ export_to_jsonl called repeatedly
HARNESS_PATH == <<"log.jsonl">>

\* Records a caller can hand to export_to_jsonl.
TestRecords ==
    { <<>>,
      << Pair("device_name", StrVal(<<"a">>)) >>,
      << Pair("device_name", StrVal(<<"a", "\n", "b">>)) >>,
      << Pair("device_name", StrVal(<<"\"", "\\">>)), Pair("free_disk_space", IntVal("7")) >>,
      << Pair("free_disk_space", IntVal("7")), Pair("device_name", StrVal(<<>>)) >> }

InitJsonl ==
    /\ cli = [f |-> None, o |-> None, positional |-> None, x |-> FALSE, d |-> FALSE, c |-> FALSE]
    /\ env = [os |-> "Linux", node |-> <<"host">>, resolve |-> "raise", file0 |-> <<>>]
    /\ args = NoArgs
    /\ pc = "export_to_jsonl"
    /\ device_info = <<>>
    /\ live_info = <<>>
    /\ first_run = TRUE
    /\ clock = 0
    /\ file = <<>>
    /\ stdout = <<>>
    /\ stderr = <<>>
    /\ opens = <<>>
    /\ calls = <<>>
    /\ exit_status = -1
    /\ caught = <<>>
    /\ sleeps = 0
    /\ records = <<>>

\* One call export_to_jsonl(data, HARNESS_PATH): mode defaults to 'a'.
ExportAppend ==
    /\ pc = "export_to_jsonl"
    /\ Len(records) < MaxRecords
    /\ \E data \in TestRecords, oc \in {"ok", "open_fail", "write_fail"} :
        /\ SetW(export_to_jsonl(data, Some(HARNESS_PATH), "a", oc, W).w)
        /\ records' = Append(records, [data |-> data, oc |-> oc])
    /\ UNCHANGED <<cli, env, args, pc, device_info, live_info, first_run, clock,
                   stderr, calls, exit_status, sleeps>>

NextJsonl == ExportAppend

SpecJsonl == InitJsonl /\ [][NextJsonl]_vars

\* ---------------------------------------------------------- properties
Last(s) == s[Len(s)]

CountTag(out, tag) == Cardinality({i \in 1..Len(out) : out[i].tag = tag})

Range(s) == {s[i] : i \in 1..Len(s)}

ExtendedKeySet ==
    {"timestamp_local", "timestamp_utc", "device_name", "os_version", "FQDN",
     "ip_address", "total_disk_space", "used_disk_space", "free_disk_space",
     "machine", "processor", "python_version"}

DeltaKeySet ==
    {"timestamp_local", "timestamp_utc", "used_disk_space", "free_disk_space",
     "total_disk_space"}

\* C1: at every call of output_to_file, continuous = true implies
\* format = "jsonl", whatever -f value the user supplied.
C1_ContinuousImpliesJsonl ==
    \A i \in 1..Len(calls) : calls[i].continuous => calls[i].format = "jsonl"

C1_Witness ==
    /\ cli.c
    /\ cli.f = Some("Xml")
    /\ Len(calls) >= 2

\* C2: with debug = true every write of the program goes to the file
\* "debug_output.json" in format "json", whatever -f, -o or positional
\* output the user supplied.
C2_DebugForcesTarget ==
    cli.d =>
        /\ \A i \in 1..Len(calls) :
            calls[i].output = Some(DEBUG_OUTPUT) /\ calls[i].format = "json"
        /\ \A i \in 1..Len(opens) :
            opens[i].path = DEBUG_OUTPUT /\ opens[i].format = "json"
        /\ Len(opens) = Len(calls)
        /\ CountTag(stdout, "pretty_json") + CountTag(stdout, "jsonl_line") = 0

C2_Witness ==
    /\ cli.d
    /\ cli.f = Some("xml")
    /\ cli.o = Some(<<"mon.jsonl">>)
    /\ cli.positional = Some(<<" ", "pos.out", " ">>)
    /\ Len(opens) = 1

\* C3: in continuous mode the first run writes the full Extended field set
\* with mode 'w', every later run writes exactly the five Delta fields with
\* mode 'a', and no file is opened with 'w' after the first run.
C3_FirstFullThenDelta ==
    cli.c =>
        /\ \A i \in 1..Len(calls) :
            IF i = 1
            THEN calls[i].mode = "w" /\ Range(calls[i].keys) = ExtendedKeySet
            ELSE /\ calls[i].mode = "a"
                 /\ Range(calls[i].keys) = DeltaKeySet
                 /\ Len(calls[i].keys) = 5
        /\ \A j \in 1..Len(opens) : opens[j].mode = (IF j = 1 THEN "w" ELSE "a")

C3_Witness ==
    /\ cli.c
    /\ Len(calls) = 3
    /\ Len(opens) = 3

\* The scenario of C4: --continuous -o mon.jsonl, no failure, interrupted
\* during the second sleep.
C4_Scenario ==
    /\ pc = "done"
    /\ cli.c
    /\ cli.o = Some(<<"mon.jsonl">>)
    /\ sleeps = 2
    /\ Len(caught) = 1
    /\ caught[1].exc = "KeyboardInterrupt"
    /\ caught[1].at = "cm_sleep"

\* The file holds exactly two newline-terminated lines, the first an object
\* of n keys and the second an object of the five Delta keys.
C4_FileShape(n) ==
    /\ NewlineCount(file) = 2
    /\ Last(file) = "\n"
    /\ LET l1 == ParseJsonObject(LineAt(file, 1))
           l2 == ParseJsonObject(LineAt(file, 2))
       IN  /\ l1.ok
           /\ Cardinality(KeySet(l1.val)) = n
           /\ Len(l1.val) = n
           /\ l2.ok
           /\ KeySet(l2.val) = DeltaKeySet
           /\ Len(l2.val) = 5

C4_Outcome(n) ==
    /\ C4_FileShape(n)
    /\ exit_status = 0
    /\ Last(stdout).tag = "stopped_by_user"

\* C4 as stated: the scenario leaves two lines, line 1 with 11 keys and
\* line 2 with the 5 Delta keys, exit status 0 and the stopped notice.
C4_Original == C4_Scenario => C4_Outcome(11)

\* C4 (amended): the scenario leaves two lines, line 1 with the 12
\* Extended keys and line 2 with the 5 Delta keys, exit status 0 and the
\* stopped notice.
C4_TwoLinesTwelveKeys ==
    C4_Scenario =>
        /\ C4_Outcome(12)
        /\ KeySet(ParseJsonObject(LineAt(file, 1)).val) = ExtendedKeySet

C4_Witness ==
    /\ C4_Scenario
    /\ env.file0 # <<>>

\* An exception was raised in this step (every raised exception is caught
\* somewhere, at the latest by __main__).
Raised(exc) == Len(caught') = Len(caught) + 1 /\ Last(caught').exc = exc

\* C5 as stated: in continuous mode any failure, a failure to open or
\* write the output file included, ends monitoring.
C5_Original ==
    (cli.c /\ \E i \in 1..Len(caught) : caught[i].exc = "OSError") => pc = "done"

\* C5 (amended): in continuous mode a disk-access failure of a run's
\* collection is caught by the loop and reported, and the process ends with
\* nothing collected or written afterwards; a failure to open or write the
\* output file is caught and reported inside export_to_jsonl and the loop
\* goes on to its sleep.
C5_DiskFailureEndsExportFailureDoesNot ==
    [][ /\ (pc = "cm_collect" /\ Raised("OSError")) =>
            /\ Last(caught').by = "loop"
            /\ Last(stdout').tag = "disk_access_error"
            /\ pc' = "done"
            /\ exit_status' = 0
            /\ calls' = calls /\ opens' = opens /\ file' = file
        /\ (pc = "cm_write" /\ Raised("OSError")) =>
            /\ Last(caught').by = "export_to_jsonl"
            /\ CountTag(stdout', "failed_export") = CountTag(stdout, "failed_export") + 1
            /\ pc' = "cm_sleep"
            /\ first_run' = FALSE
            /\ exit_status' = -1
        /\ pc = "done" => UNCHANGED vars
      ]_vars

C5_Witness ==
    /\ cli.c
    /\ Len(caught) = 2
    /\ caught[1].exc = "OSError" /\ caught[1].by = "export_to_jsonl"
    /\ caught[2].exc = "OSError" /\ caught[2].by = "loop"
    /\ Len(calls) = 2

AllOk == \A i \in 1..Len(records) : records[i].oc = "ok"

\* C7: N records written by export_to_jsonl in append mode to an empty
\* file, no write failing, give exactly N newline-terminated lines, one per
\* record in call order, each a complete single-line JSON object.
C7_AppendGivesNLines ==
    AllOk =>
        /\ NewlineCount(file) = Len(records)
        /\ file # <<>> => Last(file) = "\n"
        /\ \A k \in 1..Len(records) :
            LET r == ParseJsonObject(LineAt(file, k))
            IN  r.ok /\ r.val = records[k].data

C7_Witness ==
    /\ AllOk
    /\ Len(records) = 3
    /\ \E k \in 1..3 : \E i \in 1..Len(records[k].data) :
            "\n" \in Range(records[k].data[i].val.v)

\* No output path is configured and debug is off.
NoPath == pc # "main" /\ ~Truthy(args.output) /\ ~args.debug

ConsoleTags ==
    {"pretty_json", "jsonl_line", "xml_unsupported", "monitoring",
     "stopped_by_user", "disk_access_error"}

\* C8: with no output path and debug off no file is opened or written; json
\* prints the pretty record, jsonl prints the compact line (on every run in
\* continuous mode), xml prints only the "not supported" message.
C8_NoPathNoFile ==
    NoPath =>
        /\ opens = <<>>
        /\ file = env.file0
        /\ \A i \in 1..Len(stdout) :
            /\ stdout[i].tag \in ConsoleTags
            /\ stdout[i].tag = "pretty_json" => args.format = "json"
            /\ stdout[i].tag = "jsonl_line" => args.format = "jsonl"
            /\ args.format = "xml" => stdout[i] = [tag |-> "xml_unsupported", body |-> <<>>]
        /\ (pc = "done" /\ ~args.continuous /\ exit_status = 0) =>
            stdout = << CASE args.format = "json" ->
                               [tag |-> "pretty_json", body |-> json_dumps_indent(device_info)]
                          [] args.format = "jsonl" ->
                               [tag |-> "jsonl_line", body |-> json_dumps(device_info)]
                          [] OTHER -> [tag |-> "xml_unsupported", body |-> <<>>] >>
        /\ pc = "cm_sleep" =>
            /\ stdout[Len(stdout) - 1] =
                    [tag |-> "jsonl_line",
                     body |-> json_dumps(IF Len(calls) = 1 THEN live_info ELSE DeltaOf(live_info))]
            /\ CountTag(stdout, "jsonl_line") = Len(calls)

C8_Witness ==
    /\ NoPath
    /\ cli.positional = Some(<<" ">>)
    /\ args.format = "xml"
    /\ pc = "done"
    /\ stdout = << [tag |-> "xml_unsupported", body |-> <<>>] >>

TopCaught == {i \in 1..Len(caught) : caught[i].by = "top"}

\* C9: Done is terminal; the exit status is 0 on a clean stop and non-zero
\* with a message for every error that reaches the top level: an interrupt
\* outside the continuous loop (one-shot mode, or the collection main() does
\* before the loop) and a disk failure of the collection in main(), after
\* which nothing is written.
C9_ExitStatus ==
    /\ [](pc = "done" =>
            /\ exit_status \in {0, 1}
            /\ exit_status = 0 <=> TopCaught = {}
            /\ exit_status # 0 <=> Len(stderr) = 1
            /\ \A i \in 1..Len(caught) :
                /\ caught[i].at \in {"collect", "output"}
                        /\ caught[i].exc = "KeyboardInterrupt" =>
                    caught[i].by = "top" /\ exit_status # 0
                /\ caught[i].at = "collect" /\ caught[i].exc = "OSError" =>
                    /\ caught[i].by = "top"
                    /\ exit_status # 0
                    /\ calls = <<>> /\ opens = <<>> /\ file = env.file0)
    /\ [][pc = "done" => UNCHANGED vars]_vars

C9_Witness ==
    /\ pc = "done"
    /\ ~cli.c /\ cli.x
    /\ Len(caught) = 1
    /\ caught[1] = [exc |-> "OSError", by |-> "top", at |-> "collect"]
    /\ exit_status = 1

\* C10: in one-shot mode with an output path a failure to open or write the
\* file (json or xml) is caught inside the export function and reported; it
\* does not reach the top level, one write attempt is made, and the exit
\* status is 0.
C10_OneShotWriteFailureReported ==
    \A i \in 1..Len(caught) :
        (caught[i].exc = "OSError" /\ caught[i].at = "output"
            /\ args.format \in {"json", "xml"}) =>
            /\ caught[i].by = (IF args.format = "json" THEN "export_to_json" ELSE "export_to_xml")
            /\ Len(caught) = 1
            /\ Last(stdout).tag = (IF args.format = "json" THEN "error_writing" ELSE "failed_export")
            /\ Len(opens) = 1
            /\ Len(calls) = 1
            /\ stderr = <<>>
            /\ pc = "done"
            /\ exit_status = 0

C10_Witness ==
    /\ Len(caught) = 1
    /\ caught[1] = [exc |-> "OSError", by |-> "export_to_json", at |-> "output"]
    /\ Truthy(cli.o)
    /\ ~cli.d
    /\ pc = "done"

====
